---- MODULE Spec2Model ----
(***************************************************************************)
(* Cache warmer (src/index.js): sitemap discovery, batched warming with    *)
(* bounded retry, purge decision, and the per-run logger that is flushed   *)
(* once at the end of the run.                                             *)
(*                                                                         *)
(* One action per I/O completion (a promise that settles or a timer that   *)
(* fires).  JavaScript runs every continuation of a settled promise to its *)
(* next await before any other callback, so each action carries the whole  *)
(* continuation: a fetch that returns logs its row and decides the purge,  *)
(* the last task of a batch starts the inter-batch sleep, the last delay   *)
(* of the last domain runs main's finally block (setFinished + flush).     *)
(*                                                                         *)
(* Strings whose letter case matters (header values) are sequences of      *)
(* one-character strings; "" is <<>>.  A null timestamp is 0.              *)
(***************************************************************************)
EXTENDS Integers, Sequences, FiniteSets, TLC

(* ---------------- bounds of the model ---------------- *)
MaxDomains == 2       \* entries of DOMAINS_MAP explored (the file ships one)
MaxChildren == 2      \* child sitemaps an index may list
MaxBatch == 2         \* values of warmUrls' batchSize explored
MaxRetries == 3       \* values of retryableGet's retries explored
MaxTime == 2          \* clock readings

(* ---------------- program constants ---------------- *)
DefaultRetries == 3   \* warmUrls passes 3 to retryableGet
DefaultBatchSize == 1 \* warmUrls(..., batchSize = 1, ...)

\* the timeout option of each network call, in ms; 0 is axios' default, no
\* timeout at all
IndexTimeout == 15000   \* fetchWithProxy(index, country, 15000)
SitemapTimeout == 15000 \* fetchWithProxy(sitemapUrl, country, 15000)
GetTimeout == 15000     \* buildAxiosCfg(country, { timeout: 15000 })
FlushTimeout == 20000   \* axios.post(APPS_SCRIPT_URL, ..., { timeout: 20000 })
PurgeTimeout == 0       \* axios.post(purge_cache, ..., { headers }): none given

VARIABLES
  DOMAINS_MAP,          \* configured domains: sequence of [country, host]
  APPS_SCRIPT_URL,      \* TRUE iff the env variable is set
  CLOUDFLARE_ZONE_ID,   \* TRUE iff set
  CLOUDFLARE_API_TOKEN, \* TRUE iff set
  batchSize,            \* warmUrls parameter
  retries,              \* retryableGet parameter
  world,                \* what the network can answer in this run
  logger,               \* AppsScriptLogger: rows, runId, startedAt, finishedAt
  dom,                  \* per domain task: position and discovery/warming data
  task,                 \* per domain, batch, slot: the batch.map callback
  main,                 \* position of the main IIFE
  sink,                 \* bodies POSTed to APPS_SCRIPT_URL, in order
  purge                 \* purgeCloudflareCache: invocations and API POSTs

cfgVars == <<DOMAINS_MAP, APPS_SCRIPT_URL, CLOUDFLARE_ZONE_ID,
             CLOUDFLARE_API_TOKEN, batchSize, retries, world>>
vars == <<DOMAINS_MAP, APPS_SCRIPT_URL, CLOUDFLARE_ZONE_ID,
          CLOUDFLARE_API_TOKEN, batchSize, retries, world,
          logger, dom, task, main, sink, purge>>

(* ---------------- strings ---------------- *)
Upper == <<"A","B","C","D","E","F","G","H","I","J","K","L","M",
           "N","O","P","Q","R","S","T","U","V","W","X","Y","Z">>
Lower == <<"a","b","c","d","e","f","g","h","i","j","k","l","m",
           "n","o","p","q","r","s","t","u","v","w","x","y","z">>

\* String.prototype.toLowerCase, one character
LowerChar(c) ==
  IF \E k \in 1..26 : Upper[k] = c
  THEN Lower[CHOOSE k \in 1..26 : Upper[k] = c]
  ELSE c

\* String(x).toLowerCase()
ToLowerCase(s) == [k \in 1..Len(s) |-> LowerChar(s[k])]

NA == <<"N","/","A">>
hit == <<"h","i","t">>
ABSENT == <<>>        \* header not present (undefined) or empty: both falsy

\* res.headers[name] || "N/A"
HeaderOr(v) == IF v = ABSENT THEN NA ELSE v

\* String.prototype.includes, one character
Includes(s, c) == \E k \in 1..Len(s) : s[k] = c

\* the position of the first c in s after position from, Len(s) + 1 if none
IndexAfter(s, c, from) ==
  IF \E k \in (from + 1)..Len(s) : s[k] = c
  THEN CHOOSE k \in (from + 1)..Len(s) :
         s[k] = c /\ \A m \in (from + 1)..(k - 1) : s[m] # c
  ELSE Len(s) + 1

\* s.split(c)[1], for s that includes c
SplitSecond(s, c) ==
  LET p == IndexAfter(s, c, 0)
      q == IndexAfter(s, c, p)
  IN SubSeq(s, p + 1, q - 1)

\* cfEdge = cfRay.includes("-") ? cfRay.split("-")[1] : "N/A"
cfEdge(cfRay) == IF Includes(cfRay, "-") THEN SplitSecond(cfRay, "-") ELSE NA

(* ---------------- configuration ---------------- *)
Countries == <<"id", "c2", "c3", "c4">>
DomainEntry(d) == [country |-> Countries[d], host |-> <<"seoboost", "co", Countries[d]>>]
Domains == 1..Len(DOMAINS_MAP)

NoUrl == [host |-> <<>>, path |-> ""]
NoLoc == [host |-> <<>>, path |-> "noloc"]   \* a <url> entry without <loc>

\* what a sitemap entry names, seen from domain d
Loc(d, tag) ==
  CASE tag = "a"  -> [host |-> DOMAINS_MAP[d].host, path |-> "/a"]
    [] tag = "b"  -> [host |-> DOMAINS_MAP[d].host, path |-> "/b"]
    [] tag = "c"  -> [host |-> DOMAINS_MAP[d].host, path |-> "/c"]
    [] tag = "wa" -> [host |-> <<"www">> \o DOMAINS_MAP[d].host, path |-> "/a"]
    [] tag = "x"  -> [host |-> <<"other", "test">>, path |-> "/x"]
    [] OTHER      -> NoLoc

(* ---------------- errors and responses ---------------- *)
Err(ax, code, msg) == [axios |-> ax, code |-> code, message |-> msg]
NullErr == Err(FALSE, "", "")   \* `throw null`: no code, no message

E_ABORTED == Err(TRUE, "ECONNABORTED", "timeout of 15000ms exceeded")
E_RESET == Err(TRUE, "ECONNRESET", "read ECONNRESET")
E_TIMEDOUT == Err(TRUE, "ETIMEDOUT", "connect ETIMEDOUT")
E_NOTFOUND == Err(TRUE, "ENOTFOUND", "getaddrinfo ENOTFOUND")
E_HTTP404 == Err(TRUE, "ERR_BAD_REQUEST", "Request failed with status code 404")
E_HTTP500 == Err(TRUE, "ERR_BAD_RESPONSE", "Request failed with status code 500")
E_INVALID == Err(FALSE, "ERR_INVALID_URL", "Invalid URL")

\* the HTTP status as a number
StatusNumber(st) ==
  CASE st = "200" -> 200
    [] st = "404" -> 404
    [] st = "500" -> 500

\* axios' default validateStatus (no cfg of this file sets another one): the
\* promise resolves for 2xx and rejects for every other status
validateStatus(st) == StatusNumber(st) >= 200 /\ StatusNumber(st) < 300

\* the AxiosError of a response that fails validateStatus
HttpError(st) ==
  IF StatusNumber(st) \div 100 = 4 THEN E_HTTP404 ELSE E_HTTP500

AllErrors == {E_ABORTED, E_RESET, E_TIMEDOUT, E_NOTFOUND, E_HTTP404, E_HTTP500, E_INVALID}

Resp(st, cf, ls, ray) == [status |-> st, cf |-> cf, ls |-> ls, ray |-> ray]
HIT == <<"H","I","T">>
Hit == <<"H","i","t">>
MISS == <<"M","I","S","S">>
EXPIRED == <<"E","X","P","I","R","E","D">>
RAY == <<"8","f","-","S","I","N">>
CacheValues == {HIT, Hit, hit, MISS, EXPIRED, ABSENT}
AllResponses == {Resp("200", cf, ls, ray) : cf \in CacheValues, ls \in CacheValues, ray \in {ABSENT, RAY}}
NOT_FOUND == Resp("404", MISS, MISS, RAY)
SERVER_ERROR == Resp("500", ABSENT, ABSENT, ABSENT)

(* ---------------- AppsScriptLogger ---------------- *)
RunIds == {"run-p", "run-q"}
Times == 1..MaxTime

\* constructor()
NewLogger(id, t) == [rows |-> <<>>, runId |-> id, startedAt |-> t, finishedAt |-> 0]

\* the defaults of log's destructured parameter
DefaultEntry ==
  [country |-> "", url |-> NoUrl, status |-> "", cfCache |-> <<>>, lsCache |-> <<>>,
   cfRay |-> <<>>, responseMs |-> "", error |-> 0, message |-> <<>>]

\* log({...})
log(L, e) ==
  LET f == e @@ DefaultEntry
  IN [L EXCEPT !.rows = Append(@,
        [runId |-> L.runId, startedAt |-> L.startedAt, finishedAt |-> L.finishedAt,
         country |-> f.country, url |-> f.url, status |-> f.status,
         cfCache |-> f.cfCache, lsCache |-> f.lsCache, cfRay |-> f.cfRay,
         responseMs |-> IF f.responseMs = "ms" THEN "ms" ELSE "",
         error |-> IF f.error # 0 THEN 1 ELSE 0,
         message |-> f.message])]

\* setFinished() without the backfill of the rows already held
setFinishedNoBackfill(L, t) == [L EXCEPT !.finishedAt = t]

\* setFinished(), the clock reading t
setFinished(L, t) ==
  [L EXCEPT !.finishedAt = t,
            !.rows = [k \in 1..Len(@) |-> [@[k] EXCEPT !.finishedAt = t]]]

\* flush() up to its await: the guards and the POST
flush(S) ==
  IF ~APPS_SCRIPT_URL THEN [S EXCEPT !.main = "finished"]
  ELSE IF Len(S.logger.rows) = 0 THEN [S EXCEPT !.main = "finished"]
  ELSE [S EXCEPT !.main = "flush",
                 !.sink = Append(@, [rows |-> S.logger.rows, reply |-> "none"])]

\* flush() after its await: the reply of the sink, a 2xx answer whose body
\* says ok ("ok") or does not ("notok"), or a rejection of the POST ("throw":
\* sink unreachable, timeout, non-2xx answer)
FlushOutcomes == {"ok", "notok", "throw"}
flushReply(S, outcome) ==
  LET S1 == [S EXCEPT !.main = "finished", !.sink[Len(S.sink)].reply = outcome]
  IN IF outcome = "throw"
     THEN S1
     ELSE [S1 EXCEPT !.logger.rows = <<>>]

(* ---------------- main ---------------- *)
\* finally { logger.setFinished(); await logger.flush(); }
mainFinally(S, t) == flush([S EXCEPT !.logger = setFinished(@, t)])

\* Promise.any in place of Promise.all: main resumes at the first domain done
PromiseAnyDomain(S) ==
  S.main = "await" /\ \E d \in Domains : S.dom[d].pc = "done"

\* await Promise.all(domain tasks): every domain task of this file catches all
\* its failures, so the promise only ever fulfils, when the last task does
PromiseAllDomains(S) ==
  S.main = "await" /\ \A d \in Domains : S.dom[d].pc = "done"

(* ---------------- sitemap discovery ---------------- *)
Reply(fail, entries) == [fail |-> fail, entries |-> entries]

RECURSIVE Flat(_)
\* Array.prototype.flat()
Flat(arrays) == IF arrays = <<>> THEN <<>> ELSE Head(arrays) \o Flat(Tail(arrays))

RECURSIVE FilterSeq(_, _)
\* .filter(Boolean): drop the falsy entries (here: the one in `falsy`)
FilterSeq(s, falsy) ==
  IF s = <<>> THEN <<>>
  ELSE IF Head(s) = falsy THEN FilterSeq(Tail(s), falsy)
  ELSE <<Head(s)>> \o FilterSeq(Tail(s), falsy)

\* fetchIndexSitemaps: the child sitemaps named by the index (0: entry without
\* loc), [] on any fetch or parse failure
fetchIndexSitemaps(reply) ==
  IF reply.fail THEN <<>> ELSE FilterSeq(reply.entries, 0)

\* fetchUrlsFromSitemap: the loc of every url entry, [] on any failure
fetchUrlsFromSitemap(d, reply) ==
  IF reply.fail THEN <<>>
  ELSE FilterSeq([k \in 1..Len(reply.entries) |-> Loc(d, reply.entries[k])], NoLoc)

\* urlArrays.flat().filter(Boolean)
DiscoveredUrls(urlArrays) == FilterSeq(Flat(urlArrays), NoLoc)

NewDomain ==
  [pc |-> "index", sitemapList |-> <<>>, pending |-> {}, urlArrays |-> <<>>,
   urls |-> <<>>, batches |-> <<>>, bi |-> 0, delays |-> 0]

(* ---------------- warming ---------------- *)
Min(a, b) == IF a < b THEN a ELSE b
Ceil(n, b) == (n + b - 1) \div b

\* every URL in one batch, whatever batchSize is
BatchesUnbounded(urls, bs) == IF urls = <<>> THEN <<>> ELSE <<urls>>

\* Math.floor in place of Math.ceil: the partial last batch is dropped
BatchesFloor(urls, bs) ==
  [i \in 1..(Len(urls) \div bs) |-> SubSeq(urls, (i - 1) * bs + 1, i * bs)]

\* Array.from({length: ceil(n / batchSize)}, (_, i) => urls.slice(i*bs, i*bs + bs))
Batches(urls, bs) ==
  [i \in 1..Ceil(Len(urls), bs) |->
     SubSeq(urls, (i - 1) * bs + 1, Min(i * bs, Len(urls)))]

\* one batch.map callback: position, the locals of its retryableGet call (i,
\* lastError) and what the call did so far: trace, the error code of every
\* failed attempt, and sleeps, the backoff waits.  The locals are gone once
\* retryableGet has returned or thrown; result keeps how it ended.
NewTask ==
  [pc |-> "new", i |-> 0, lastError |-> NullErr, trace |-> <<>>, sleeps |-> 0,
   result |-> "none"]
TaskAt(pc) == [NewTask EXCEPT !.pc = pc]

\* a check that retries whatever the error is
RetryableAlways(err) == TRUE

\* retryable = axios.isAxiosError(err) && [...].includes(code)
Retryable(err) ==
  err.axios /\ err.code \in {"ECONNABORTED", "ECONNRESET", "ETIMEDOUT"}

\* the loop bound off by one: i <= retries
LoopOffByOne(i, n) == i <= n

\* for (let i = 0; i < retries; i++)
LoopContinues(i, n) == i < n

\* err?.message || "request failed"
MessageOf(err) == IF err.message = "" THEN <<"request failed">> ELSE <<err.message>>

\* the catch branch's row with the try branch's flag: error: 0
FailureEntryFlagZero(d, url, err) ==
  [country |-> DOMAINS_MAP[d].country, url |-> url, responseMs |-> "ms",
   error |-> 0, message |-> MessageOf(err)]

\* the row of the catch branch of the batch.map callback
FailureEntry(d, url, err) ==
  [country |-> DOMAINS_MAP[d].country, url |-> url, responseMs |-> "ms",
   error |-> 1, message |-> MessageOf(err)]

\* the row of the try branch
SuccessEntry(d, url, res) ==
  [country |-> DOMAINS_MAP[d].country, url |-> url, status |-> res.status,
   cfCache |-> HeaderOr(res.cf), lsCache |-> HeaderOr(res.ls),
   cfRay |-> HeaderOr(res.ray), responseMs |-> "ms", error |-> 0, message |-> <<>>]

\* the comparison without toLowerCase()
ShouldPurgeExact(cfCache, lsCache) == lsCache # hit

\* if (String(lsCache).toLowerCase() !== "hit")
ShouldPurge(cfCache, lsCache) == ToLowerCase(lsCache) # hit

\* Promise.race in place of Promise.all: the loop goes on at the first
\* callback that ends
BatchJoinAny(S, d) ==
  LET b == S.dom[d].bi
  IN IF \E j \in 1..Len(S.task[d][b]) : S.task[d][b][j].pc = "done"
     THEN [S EXCEPT !.dom[d].pc = "delay"]
     ELSE S

\* the delay only between batches: after the last batch warmUrls returns
BatchJoinSkipLastDelay(S, d) ==
  LET b == S.dom[d].bi
  IN IF \A j \in 1..Len(S.task[d][b]) : S.task[d][b][j].pc = "done"
     THEN [S EXCEPT !.dom[d].pc = IF b = Len(S.dom[d].batches) THEN "done" ELSE "delay"]
     ELSE S

\* await Promise.all(batch.map(...)); then `await sleep(delay)` starts
BatchJoin(S, d) ==
  LET b == S.dom[d].bi
  IN IF \A j \in 1..Len(S.task[d][b]) : S.task[d][b][j].pc = "done"
     THEN [S EXCEPT !.dom[d].pc = "delay"]
     ELSE S

\* retryableGet has returned or thrown: its frame is gone
Ended(pc, result) == [TaskAt(pc) EXCEPT !.result = result]

\* a batch.map callback ends
Finish(S, d, b, j) ==
  BatchJoin([S EXCEPT !.task[d][b][j] = Ended("done", @.result)], d)

\* no catch around the fetch: the error rejects the batch's Promise.all and
\* with it warmUrls, so the domain task ends there
FailAbortsWarm(S, d, b, j, err) ==
  [S EXCEPT !.task[d][b][j] = Ended("done", "raised"), !.dom[d].pc = "done"]

\* a catch branch that only warns and logs no row
FailWithoutRow(S, d, b, j, err) ==
  Finish([S EXCEPT !.task[d][b][j].result = "raised"], d, b, j)

\* the catch branch: one failure row, the callback ends
Fail(S, d, b, j, err) ==
  LET url == S.dom[d].batches[b][j]
  IN Finish([S EXCEPT !.logger = log(@, FailureEntry(d, url, err)),
                      !.task[d][b][j].result = "raised"], d, b, j)

RECURSIVE FailAll(_, _, _, _)
\* retries = 0: every callback of the batch throws lastError (null) at once
FailAll(S, d, b, j) ==
  IF j > Len(S.dom[d].batches[b]) THEN S
  ELSE FailAll(Fail(S, d, b, j, NullErr), d, b, j + 1)

\* for (const batch of batches): batch b starts, or warmUrls returns
RunBatch(S, d, b) ==
  IF b > Len(S.dom[d].batches)
  THEN [S EXCEPT !.dom[d].pc = "done"]
  ELSE LET S1 == [S EXCEPT !.dom[d].pc = "batch", !.dom[d].bi = b]
       IN IF LoopContinues(0, retries)
          THEN [S1 EXCEPT !.task[d][b] =
                  [j \in 1..Len(@) |-> [@[j] EXCEPT !.pc = "get"]]]
          ELSE FailAll(S1, d, b, 1)

\* warmUrls(urls, country, logger, batchSize)
warmUrls(S, d) ==
  LET bs == Batches(S.dom[d].urls, batchSize)
      S1 == [S EXCEPT !.dom[d].batches = bs,
                      !.task[d] = [b \in 1..Len(bs) |->
                                     [j \in 1..Len(bs[b]) |-> NewTask]]]
  IN RunBatch(S1, d, 1)

\* the domain task after discovery: summary row, then warmUrls
SummaryEntry(d, n) ==
  [country |-> DOMAINS_MAP[d].country,
   message |-> <<"Found", ToString(n), "URLs for", DOMAINS_MAP[d].country>>]

AfterDiscovery(S, d) ==
  LET urls == DiscoveredUrls(S.dom[d].urlArrays)
      S1 == [S EXCEPT !.dom[d].urls = urls,
                      !.logger = log(@, SummaryEntry(d, Len(urls)))]
  IN warmUrls(S1, d)

(* ---------------- the state as one record ---------------- *)
St == [logger |-> logger, dom |-> dom, task |-> task, main |-> main,
       sink |-> sink, purge |-> purge]

Becomes(S) ==
  /\ logger' = S.logger
  /\ dom' = S.dom
  /\ task' = S.task
  /\ main' = S.main
  /\ sink' = S.sink
  /\ purge' = S.purge
  /\ UNCHANGED cfgVars

\* clock readings not before the start of the run
Later == {t \in Times : t >= logger.startedAt}

\* the step of a domain task ends in state S: if that settles main's
\* Promise.all, the finally block runs in the same turn, the clock reading t
DomainStep(S) ==
  IF PromiseAllDomains(S)
  THEN \E t \in Later : Becomes(mainFinally(S, t))
  ELSE Becomes(S)

(* ---------------- actions ---------------- *)
\* the sitemap index fetch of domain d settles
IndexFetched(d, reply) ==
  /\ dom[d].pc = "index"
  /\ LET list == fetchIndexSitemaps(reply)
         S1 == [St EXCEPT !.dom[d].pc = "children",
                          !.dom[d].sitemapList = list,
                          !.dom[d].pending = 1..Len(list),
                          !.dom[d].urlArrays = [c \in 1..Len(list) |-> <<>>]]
     IN DomainStep(IF list = <<>> THEN AfterDiscovery(S1, d) ELSE S1)

\* no catch in fetchUrlsFromSitemap: a failed child rejects the domain task's
\* Promise.all, the task ends before its summary row and warmUrls
SitemapFetchedUncaught(d, c, reply) ==
  /\ dom[d].pc = "children"
  /\ c \in dom[d].pending
  /\ LET S1 == [St EXCEPT !.dom[d].pending = @ \ {c},
                          !.dom[d].urlArrays[c] = fetchUrlsFromSitemap(d, reply)]
     IN DomainStep(IF reply.fail THEN [S1 EXCEPT !.dom[d].pc = "done"]
                   ELSE IF S1.dom[d].pending = {} THEN AfterDiscovery(S1, d)
                   ELSE S1)

\* the fetch of child sitemap c of domain d settles
SitemapFetched(d, c, reply) ==
  /\ dom[d].pc = "children"
  /\ c \in dom[d].pending
  /\ LET S1 == [St EXCEPT !.dom[d].pending = @ \ {c},
                          !.dom[d].urlArrays[c] = fetchUrlsFromSitemap(d, reply)]
     IN DomainStep(IF S1.dom[d].pending = {} THEN AfterDiscovery(S1, d) ELSE S1)

\* purgeCloudflareCache(url) up to its await
purgeCloudflareCache(S, d, b, j) ==
  LET url == S.dom[d].batches[b][j]
      S1 == [S EXCEPT !.purge.calls = Append(@, [country |-> DOMAINS_MAP[d].country, url |-> url])]
  IN IF ~CLOUDFLARE_ZONE_ID \/ ~CLOUDFLARE_API_TOKEN
     THEN Finish(S1, d, b, j)
     ELSE [S1 EXCEPT !.purge.posts = Append(@, url),
                     !.task[d][b][j].pc = "purge"]

\* axios.get of slot j of batch b resolves with res: the try branch
GetSucceeds(d, b, j, res) ==
  /\ task[d][b][j].pc = "get"
  /\ LET url == dom[d].batches[b][j]
         e == SuccessEntry(d, url, res)
         S1 == [St EXCEPT !.logger = log(@, e),
                          !.task[d][b][j] = Ended("get", "returned")]
     IN Becomes(IF ShouldPurge(e.cfCache, e.lsCache)
                THEN purgeCloudflareCache(S1, d, b, j)
                ELSE Finish(S1, d, b, j))

\* the backoff skipped when no attempt is left: a transient failure of the
\* last attempt throws at once
GetFailsNoLastBackoff(d, b, j, err) ==
  /\ task[d][b][j].pc = "get"
  /\ LET S1 == [St EXCEPT !.task[d][b][j].trace = Append(@, err.code),
                          !.task[d][b][j].lastError = err]
     IN Becomes(IF Retryable(err) /\ LoopContinues(task[d][b][j].i + 1, retries)
                THEN [S1 EXCEPT !.task[d][b][j].pc = "sleep"]
                ELSE Fail(S1, d, b, j, err))

\* axios.get of slot j of batch b rejects with err
GetFails(d, b, j, err) ==
  /\ task[d][b][j].pc = "get"
  /\ LET S1 == [St EXCEPT !.task[d][b][j].trace = Append(@, err.code),
                          !.task[d][b][j].lastError = err]
     IN Becomes(IF Retryable(err)
                THEN [S1 EXCEPT !.task[d][b][j].pc = "sleep"]
                ELSE Fail(S1, d, b, j, err))

\* the HTTP response res to the GET of slot j of batch b arrives: axios.get
\* resolves with it or rejects, as validateStatus says
HttpReply(d, b, j, res) ==
  IF validateStatus(res.status)
  THEN GetSucceeds(d, b, j, res)
  ELSE GetFails(d, b, j, HttpError(res.status))

\* sleep(2000) of retryableGet ends: i++, next attempt or throw lastError
BackoffElapses(d, b, j) ==
  /\ task[d][b][j].pc = "sleep"
  /\ LET i1 == task[d][b][j].i + 1
         S1 == [St EXCEPT !.task[d][b][j].i = i1,
                          !.task[d][b][j].sleeps = @ + 1]
     IN Becomes(IF LoopContinues(i1, retries)
                THEN [S1 EXCEPT !.task[d][b][j].pc = "get"]
                ELSE Fail(S1, d, b, j, task[d][b][j].lastError))

\* the purge POST settles: success, non-success body, or rejection
PurgeOutcomes == {"success", "failure", "throw"}
\* no catch inside purgeCloudflareCache: a rejected POST lands in the catch
\* branch of the callback, which logs a failure row
PurgeReturnsUncaught(d, b, j, outcome) ==
  /\ task[d][b][j].pc = "purge"
  /\ outcome \in PurgeOutcomes
  /\ Becomes(IF outcome = "throw"
             THEN Fail(St, d, b, j, E_HTTP500)
             ELSE Finish(St, d, b, j))

PurgeReturns(d, b, j, outcome) ==
  /\ task[d][b][j].pc = "purge"
  /\ outcome \in PurgeOutcomes
  /\ Becomes(Finish(St, d, b, j))

\* sleep(delay) after the current batch ends
DelayElapses(d) ==
  /\ dom[d].pc = "delay"
  /\ DomainStep(RunBatch([St EXCEPT !.dom[d].delays = @ + 1], d, dom[d].bi + 1))

\* the POST to the sink settles
FlushReturns(outcome) ==
  /\ main = "flush"
  /\ Becomes(flushReply(St, outcome))

\* what the sitemaps of domain d can answer: the first domain's site is the
\* one explored in depth, the others' sites are kept small
SitemapRepliesOf(d) ==
  IF d = 1 THEN world.sitemapReplies ELSE world.otherSitemapReplies

Next ==
  \/ \E d \in Domains, reply \in world.indexReplies : IndexFetched(d, reply)
  \/ \E d \in Domains : \E c \in dom[d].pending, reply \in SitemapRepliesOf(d) :
       SitemapFetched(d, c, reply)
  \/ \E d \in Domains : \E b \in 1..Len(task[d]) : \E j \in 1..Len(task[d][b]) :
       \/ \E res \in world.responses : HttpReply(d, b, j, res)
       \/ \E err \in world.errors : GetFails(d, b, j, err)
       \/ BackoffElapses(d, b, j)
       \/ \E o \in PurgeOutcomes : PurgeReturns(d, b, j, o)
  \/ \E d \in Domains : DelayElapses(d)
  \/ \E o \in FlushOutcomes : FlushReturns(o)

\* the steps that are bound to come: a timer that fires, or the settling of a
\* call whose timeout rejects it when the peer never answers
TimedNext ==
  \/ /\ IndexTimeout > 0
     /\ \E d \in Domains, reply \in world.indexReplies : IndexFetched(d, reply)
  \/ /\ SitemapTimeout > 0
     /\ \E d \in Domains : \E c \in dom[d].pending, reply \in SitemapRepliesOf(d) :
          SitemapFetched(d, c, reply)
  \/ \E d \in Domains : \E b \in 1..Len(task[d]) : \E j \in 1..Len(task[d][b]) :
       \/ GetTimeout > 0 /\ \E res \in world.responses : HttpReply(d, b, j, res)
       \/ GetTimeout > 0 /\ \E err \in world.errors : GetFails(d, b, j, err)
       \/ BackoffElapses(d, b, j)
       \/ PurgeTimeout > 0 /\ \E o \in PurgeOutcomes : PurgeReturns(d, b, j, o)
  \/ \E d \in Domains : DelayElapses(d)
  \/ FlushTimeout > 0 /\ \E o \in FlushOutcomes : FlushReturns(o)

(* ---------------- initial states ---------------- *)
World(ix, sm, osm, rs, es) ==
  [indexReplies |-> ix, sitemapReplies |-> sm, otherSitemapReplies |-> osm,
   responses |-> rs, errors |-> es]

\* the state after `new AppsScriptLogger()` and the start of every domain task
InitWith(nDoms, sinks, zones, tokens, sizes, tries, ids, starts, worlds) ==
  /\ \E n \in nDoms : DOMAINS_MAP = [d \in 1..n |-> DomainEntry(d)]
  /\ APPS_SCRIPT_URL \in sinks
  /\ CLOUDFLARE_ZONE_ID \in zones
  /\ CLOUDFLARE_API_TOKEN \in tokens
  /\ batchSize \in sizes
  /\ retries \in tries
  /\ world \in worlds
  /\ \E id \in ids, t \in starts : logger = NewLogger(id, t)
  /\ dom = [d \in Domains |-> NewDomain]
  /\ task = [d \in Domains |-> <<>>]
  /\ main = "await"
  /\ sink = <<>>
  /\ purge = [calls |-> <<>>, posts |-> <<>>]

\* ---- the run over several domains: sitemaps of at most two URLs for
\* the first domain and one for the others, the default batch size
RunWorld ==
  World({Reply(TRUE, <<>>), Reply(FALSE, <<1>>)},
        {Reply(TRUE, <<>>), Reply(FALSE, <<"a">>), Reply(FALSE, <<"a", "b">>)},
        {Reply(FALSE, <<"a">>)},
        {Resp("200", HIT, MISS, RAY)},
        {E_RESET})

Init ==
  InitWith(1..MaxDomains, BOOLEAN, {TRUE}, {TRUE}, {DefaultBatchSize},
           {DefaultRetries}, {"run-p"}, {1}, {RunWorld})

Spec == Init /\ [][Next]_vars

\* ---- batches: the first domain lists three URLs, warmed in batches of
\* 1..MaxBatch, next to a second domain with one URL
BatchWorld ==
  World({Reply(FALSE, <<1>>)},
        {Reply(FALSE, <<"a", "b", "c">>), Reply(FALSE, <<"a", "b">>)},
        {Reply(TRUE, <<>>), Reply(FALSE, <<"a">>)},
        {Resp("200", HIT, MISS, RAY)},
        {E_RESET, E_NOTFOUND})

InitBatch ==
  InitWith({1, 2}, {TRUE}, {TRUE}, {TRUE}, 1..MaxBatch, {DefaultRetries},
           {"run-p"}, {1}, {BatchWorld})

SpecBatch == InitBatch /\ [][Next]_vars

\* ---- retryableGet: one URL, every error, retries in 0..MaxRetries
RetryWorld ==
  World({Reply(FALSE, <<1>>)},
        {Reply(FALSE, <<"a">>)},
        {Reply(FALSE, <<"a">>)},
        {Resp("200", HIT, MISS, RAY), Resp("200", MISS, HIT, ABSENT),
         NOT_FOUND, SERVER_ERROR},
        AllErrors)

InitRetry ==
  InitWith({1}, {TRUE}, {TRUE}, {TRUE}, {DefaultBatchSize}, 0..MaxRetries,
           {"run-p"}, {1}, {RetryWorld})

SpecRetry == InitRetry /\ [][Next]_vars

\* ---- purge decision: one URL, every combination of the two cache headers
PurgeWorld ==
  World({Reply(FALSE, <<1>>)},
        {Reply(FALSE, <<"a">>)},
        {Reply(FALSE, <<"a">>)},
        AllResponses,
        {E_RESET})

InitPurge ==
  InitWith({1}, {TRUE}, BOOLEAN, BOOLEAN, {DefaultBatchSize}, {DefaultRetries},
           {"run-p"}, {1}, {PurgeWorld})

SpecPurge == InitPurge /\ [][Next]_vars

\* ---- discovery: one domain, an index of up to MaxChildren child sitemaps
\* with duplicate, www, third-party and loc-less entries
DiscoveryWorld ==
  World({Reply(TRUE, <<>>), Reply(FALSE, <<0, 1>>)}
          \cup {Reply(FALSE, [k \in 1..m |-> k]) : m \in 0..MaxChildren},
        {Reply(TRUE, <<>>), Reply(FALSE, <<>>), Reply(FALSE, <<"a", "a">>),
         Reply(FALSE, <<"a", "x">>), Reply(FALSE, <<"wa", "none">>),
         Reply(FALSE, <<"b">>)},
        {Reply(FALSE, <<"a">>)},
        {Resp("200", HIT, MISS, RAY)},
        {E_RESET})

InitDiscovery ==
  InitWith({1}, {TRUE}, {TRUE}, {TRUE}, {DefaultBatchSize}, {DefaultRetries},
           {"run-p"}, {1}, {DiscoveryWorld})

SpecDiscovery == InitDiscovery /\ [][Next]_vars

\* ---- failures of discovery: two domains, each with an index of two child
\* sitemaps; the index and every child either fails or lists one URL
IsolationWorld ==
  World({Reply(TRUE, <<>>), Reply(FALSE, <<1, 2>>)},
        {Reply(TRUE, <<>>), Reply(FALSE, <<"a">>)},
        {Reply(TRUE, <<>>), Reply(FALSE, <<"b">>)},
        {Resp("200", HIT, MISS, RAY)},
        {E_RESET})

InitIsolation ==
  InitWith({2}, {TRUE}, {TRUE}, {TRUE}, {DefaultBatchSize}, {DefaultRetries},
           {"run-p"}, {1}, {IsolationWorld})

SpecIsolation == InitIsolation /\ [][Next]_vars

(***************************************************************************)
(* Properties                                                              *)
(***************************************************************************)
SlotsOf(d) ==
  UNION {{<<b, j>> : j \in 1..Len(task[d][b])} : b \in 1..Len(task[d])}

\* the domain task of d has returned and none of its callbacks is pending
DomainTerminated(d) ==
  /\ dom[d].pc = "done"
  /\ \A s \in SlotsOf(d) : task[d][s[1]][s[2]].pc = "done"

CountRows(rows, P(_)) == Cardinality({k \in 1..Len(rows) : P(rows[k])})
Occurrences(seq, x) == Cardinality({k \in 1..Len(seq) : seq[k] = x})

RECURSIVE TotalUrls(_)
TotalUrls(n) == IF n = 0 THEN 0 ELSE Len(dom[n].urls) + TotalUrls(n - 1)

IsFailureRow(r) == r.url # NoUrl /\ r.error = 1
IsSuccessRow(r) == r.url # NoUrl /\ r.error = 0

\* C1: with a configured sink the sink receives exactly one flush POST per
\* run, never more, and the POST is issued only once every domain task has
\* terminated (each of its URLs warmed or failed).
C1_FlushOnceAfterAllDomains ==
  /\ Len(sink) <= 1
  /\ (Len(sink) >= 1 \/ main # "await") => \A d \in Domains : DomainTerminated(d)
  /\ (main = "finished" /\ APPS_SCRIPT_URL) => Len(sink) = 1
  /\ ~APPS_SCRIPT_URL => Len(sink) = 0

\* a finished run over two domains, one POST, carrying a failed and a warmed URL
C1_Witness ==
  /\ main = "finished"
  /\ Len(DOMAINS_MAP) >= 2
  /\ Len(sink) = 1
  /\ \E k \in 1..Len(sink[1].rows) : IsFailureRow(sink[1].rows[k])
  /\ \E k \in 1..Len(sink[1].rows) : IsSuccessRow(sink[1].rows[k])

RowCarries(r, id, start, finish) ==
  r.runId = id /\ r.startedAt = start /\ r.finishedAt = finish

\* C2: every row the logger holds carries the logger's run id and start
\* timestamp; the finish timestamp is set only after every domain task has
\* terminated, so no row is appended after the backfill, and every row of a
\* flushed payload carries the one, non-null finish timestamp.
C2_RowsShareRunAndFinish ==
  /\ \A k \in 1..Len(logger.rows) :
       RowCarries(logger.rows[k], logger.runId, logger.startedAt, logger.finishedAt)
  /\ logger.finishedAt # 0 => \A d \in Domains : DomainTerminated(d)
  /\ \A p \in 1..Len(sink) :
       /\ logger.finishedAt # 0
       /\ \A k \in 1..Len(sink[p].rows) :
            RowCarries(sink[p].rows[k], logger.runId, logger.startedAt, logger.finishedAt)

\* a payload with the rows of two domains, all carrying the finish timestamp
C2_Witness ==
  /\ Len(sink) = 1
  /\ Len(sink[1].rows) >= 4
  /\ \E k \in 1..Len(sink[1].rows) : sink[1].rows[k].country = Countries[2]
  /\ \A k \in 1..Len(sink[1].rows) : sink[1].rows[k].finishedAt = logger.finishedAt
  /\ logger.finishedAt > logger.startedAt

\* C3: the payload of the flush carries exactly U+M rows for M domains with U
\* discovered URLs in total: one summary row per domain and, for every URL,
\* exactly one row, a success or a failure.
C3_PayloadRowCount ==
  \A p \in 1..Len(sink) :
    LET rows == sink[p].rows
    IN /\ Len(rows) = TotalUrls(Len(DOMAINS_MAP)) + Len(DOMAINS_MAP)
       /\ \A d \in Domains :
            LET Of(r) == r.country = DOMAINS_MAP[d].country
                Summary(r) == Of(r) /\ r.url = NoUrl
            IN /\ CountRows(rows, Summary) = 1
               /\ \A k \in 1..Len(dom[d].urls) :
                    LET u == dom[d].urls[k]
                        ForUrl(r) == Of(r) /\ r.url = u
                    IN CountRows(rows, ForUrl) = Occurrences(dom[d].urls, u)

\* a payload for two domains and three URLs, one of them failed
C3_Witness ==
  /\ Len(sink) = 1
  /\ Len(DOMAINS_MAP) = 2
  /\ TotalUrls(2) = 3
  /\ Len(sink[1].rows) = 5
  /\ \E k \in 1..5 : IsFailureRow(sink[1].rows[k])

(* ---------------- retryableGet ---------------- *)
TransientCodes == {"ECONNABORTED", "ECONNRESET", "ETIMEDOUT"}
AllTransient(trace) == \A k \in 1..Len(trace) : trace[k] \in TransientCodes
InRetryLoop(tk) == tk.pc \in {"get", "sleep"}
LastRow(L) == L.rows[Len(L.rows)]
RowAdded(r) == Len(logger'.rows) = Len(logger.rows) + 1 /\ r = LastRow(logger')

\* no attempt beyond retries: attempt Len(trace)+1 is in flight only while
\* fewer than retries attempts have failed
C4_AttemptBound ==
  \A d \in Domains : \A s \in SlotsOf(d) :
    LET tk == task[d][s[1]][s[2]]
    IN /\ Len(tk.trace) <= retries
       /\ tk.pc = "get" => Len(tk.trace) < retries
       /\ tk.i = tk.sleeps

\* what one step does to a call that has seen k = Len(trace) failures
C4_Step ==
  \A d \in Domains : \A s \in SlotsOf(d) :
    LET tk == task[d][s[1]][s[2]]
        tn == task'[d][s[1]][s[2]]
        k == Len(tk.trace)
    IN /\ (tk.pc = "sleep" /\ AllTransient(tk.trace) /\ tn # tk) =>
            IF k < retries
            THEN tn.pc = "get" /\ tn.trace = tk.trace
            ELSE /\ k = retries
                 /\ tn.pc = "done" /\ tn.result = "raised"
                 /\ \E r \in {LastRow(logger')} :
                      RowAdded(r) /\ IsFailureRow(r) /\ r.message = MessageOf(tk.lastError)
       /\ (tk.pc = "get" /\ tn.result = "returned") =>
            /\ k < retries
            /\ \E r \in {LastRow(logger')} : RowAdded(r) /\ IsSuccessRow(r)
       /\ (InRetryLoop(tk) /\ tn.result = "raised" /\ k < retries) =>
            /\ tk.pc = "get"
            /\ \E r \in {LastRow(logger')} :
                 RowAdded(r) /\ r.message \notin {<<E_ABORTED.message>>, <<E_RESET.message>>, <<E_TIMEDOUT.message>>}

\* C4: retryableGet(url, cfg, maxRetries) makes attempt k+1 after k transient
\* failures exactly when k < maxRetries and returns its success to the
\* caller; after maxRetries transient failures it raises the last error; it
\* never makes more than maxRetries attempts.
C4_RetryBound == []C4_AttemptBound /\ [][C4_Step]_vars

\* every attempt allowed has failed transiently: the call is about to raise
C4_Witness ==
  /\ retries = MaxRetries
  /\ \E d \in Domains : \E s \in SlotsOf(d) :
       LET tk == task[d][s[1]][s[2]]
       IN tk.pc = "sleep" /\ Len(tk.trace) = retries /\ AllTransient(tk.trace)

\* a call still in its loop has only seen transient errors, each followed by
\* one backoff
C5_LoopOnlyAfterTransient ==
  \A d \in Domains : \A s \in SlotsOf(d) :
    LET tk == task[d][s[1]][s[2]]
    IN InRetryLoop(tk) =>
         /\ AllTransient(tk.trace)
         /\ tk.sleeps = IF tk.pc = "sleep" THEN Len(tk.trace) - 1 ELSE Len(tk.trace)

\* an attempt that fails with a non-transient error ends the call in that step
C5_Step ==
  \A d \in Domains : \A s \in SlotsOf(d) :
    LET tk == task[d][s[1]][s[2]]
        tn == task'[d][s[1]][s[2]]
    IN (tk.pc = "get" /\ tn # tk /\ tn.result # "returned" /\ tn.pc # "sleep") =>
         /\ tn.pc = "done" /\ tn.result = "raised"
         /\ tn.sleeps = 0 /\ tk.sleeps = Len(tk.trace)
         /\ \E r \in {LastRow(logger')} : RowAdded(r) /\ IsFailureRow(r)

\* C5: a non-transient error on any attempt ends the retry loop at once: no
\* further attempt, no backoff after it; on the first attempt that is one
\* attempt and no delay.
C5_NoRetryOnPermanent == []C5_LoopOnlyAfterTransient /\ [][C5_Step]_vars

\* the call raised a DNS failure: its row is logged, nothing is in flight
C5_Witness ==
  /\ retries = MaxRetries
  /\ dom[1].pc = "delay"
  /\ Len(logger.rows) = 2
  /\ IsFailureRow(logger.rows[2])
  /\ logger.rows[2].message = <<E_NOTFOUND.message>>
  /\ task[1][1][1].result = "raised"

(* ---------------- purge decision ---------------- *)
PurgeCallsFor(d, u) ==
  Occurrences(purge.calls, [country |-> DOMAINS_MAP[d].country, url |-> u])

PurgeIffNotHit(Status(_)) ==
  Len(logger.rows) > 0 =>
    \A d \in Domains : \A k \in 1..Len(dom[d].urls) :
      LET u == dom[d].urls[k]
          Miss(r) == /\ IsSuccessRow(r)
                     /\ r.country = DOMAINS_MAP[d].country /\ r.url = u
                     /\ ToLowerCase(Status(r)) # hit
      IN PurgeCallsFor(d, u) = CountRows(logger.rows, Miss)

CdnStatus(r) == r.cfCache
OriginStatus(r) == r.lsCache

\* C6: for every successfully fetched URL a purge call is triggered iff the
\* CDN-level cache status (cf-cache-status), compared case-insensitively, is
\* not "HIT".
C6_PurgeIffCdnNotHit == PurgeIffNotHit(CdnStatus)

\* C6 as amended: a purge call is triggered iff the origin-level cache status
\* (x-litespeed-cache), compared case-insensitively, is not "hit", whatever
\* the CDN-level status says.
C6_PurgeIffOriginNotHit == PurgeIffNotHit(OriginStatus)

\* the origin reports Hit while the CDN reports MISS: no purge call
C6_Witness ==
  /\ dom[1].pc = "delay"
  /\ Len(logger.rows) = 2
  /\ IsSuccessRow(logger.rows[2])
  /\ logger.rows[2].lsCache = Hit
  /\ logger.rows[2].cfCache = MISS
  /\ purge.calls = <<>>

(* ---------------- discovery ---------------- *)
StripWww(h) == IF h # <<>> /\ Head(h) = "www" THEN Tail(h) ELSE h
SameHost(d, u) == StripWww(u.host) = StripWww(DOMAINS_MAP[d].host)
Discovered(d) == dom[d].pc \in {"batch", "delay", "done"}

\* C7: the URL list discovery hands to warmUrls holds every same-host URL of
\* the sitemaps exactly once and no URL of another host.
C7_DiscoveryUniqueSameHost ==
  \A d \in Domains :
    Discovered(d) =>
      /\ \A k \in 1..Len(dom[d].urls) :
           /\ SameHost(d, dom[d].urls[k])
           /\ Occurrences(dom[d].urls, dom[d].urls[k]) = 1
      /\ \A c \in 1..Len(dom[d].urlArrays) : \A k \in 1..Len(dom[d].urlArrays[c]) :
           SameHost(d, dom[d].urlArrays[c][k]) =>
             Occurrences(dom[d].urls, dom[d].urlArrays[c][k]) = 1

(* ---------------- batches ---------------- *)
\* the rows of the run: the logger's, or the payload once it is POSTed
Rows == IF Len(sink) > 0 THEN sink[1].rows ELSE logger.rows

BatchComplete(d, b) ==
  dom[d].bi > b \/ (dom[d].bi = b /\ dom[d].pc \in {"delay", "done"})

Pending(tk) == tk.pc \in {"get", "sleep", "purge"}

\* the callbacks for URL u of domain d that have logged their outcome
EndedFor(d, u) ==
  Cardinality({s \in SlotsOf(d) :
                 dom[d].batches[s[1]][s[2]] = u /\ task[d][s[1]][s[2]].result # "none"})

\* C8: a URL whose fetch fails does not stop its batch, the later batches or
\* the other domains: every URL of a completed batch has its own row, a batch
\* is left only when all its URLs are done, a domain task returns only after
\* all its batches, and the run ends only after all domains.
C8_BatchIsolation ==
  /\ \A d \in Domains :
       /\ \A b \in 1..Len(task[d]) :
            BatchComplete(d, b) =>
              \A j \in 1..Len(task[d][b]) :
                /\ task[d][b][j].pc = "done"
                /\ task[d][b][j].result # "none"
       /\ \A k \in 1..Len(dom[d].urls) :
            LET u == dom[d].urls[k]
                ForUrl(r) == r.country = DOMAINS_MAP[d].country /\ r.url = u
            IN CountRows(Rows, ForUrl) = EndedFor(d, u)
       /\ dom[d].pc = "batch" => \E j \in 1..Len(task[d][dom[d].bi]) :
                                    Pending(task[d][dom[d].bi][j])
       /\ dom[d].pc = "done" =>
            /\ Len(dom[d].batches) = Ceil(Len(dom[d].urls), batchSize)
            /\ \A b \in 1..Len(dom[d].batches) : BatchComplete(d, b)
  /\ main # "await" => \A d \in Domains : dom[d].pc = "done"

\* a finished run: in a batch of two one URL failed and the other was
\* warmed, the next batch was warmed, and so was the other domain's URL
C8_Witness ==
  /\ main = "finished"
  /\ batchSize = 2
  /\ Len(DOMAINS_MAP) = 2
  /\ Len(dom[1].urls) = 3
  /\ Len(dom[2].urls) = 1
  /\ task[1][1][1].result = "raised"
  /\ task[1][1][2].result = "returned"
  /\ task[1][2][1].result = "returned"
  /\ task[2][1][1].result = "returned"
  /\ Len(Rows) = 6

\* C9: within a domain no fetch of batch b is issued before every URL of the
\* earlier batches is done, with its row logged and its purge returned, and
\* the delay after each earlier batch has elapsed.
C9_BatchesSerial ==
  \A d \in Domains : \A s \in SlotsOf(d) :
    task[d][s[1]][s[2]].pc # "new" =>
      /\ dom[d].delays >= s[1] - 1
      /\ \A b \in 1..(s[1] - 1) : \A j \in 1..Len(task[d][b]) :
           /\ task[d][b][j].pc = "done"
           /\ task[d][b][j].result # "none"
           /\ \E k \in 1..Len(Rows) :
                /\ Rows[k].country = DOMAINS_MAP[d].country
                /\ Rows[k].url = dom[d].batches[b][j]

\* the second batch is being fetched after a first batch of two, one failed
C9_Witness ==
  /\ batchSize = 2
  /\ Len(task[1]) = 2
  /\ task[1][2][1].pc = "get"
  /\ dom[1].delays = 1
  /\ task[1][1][1].result = "returned"
  /\ task[1][1][2].result = "raised"

InFlight(d) == Cardinality({s \in SlotsOf(d) : task[d][s[1]][s[2]].pc = "get"})

\* C10: at most batchSize URL fetches of one domain are in flight.
C10_InFlightBound == \A d \in Domains : InFlight(d) <= batchSize

\* a full batch of the first domain in flight next to a fetch of the second
C10_Witness ==
  /\ Len(DOMAINS_MAP) = 2
  /\ batchSize = MaxBatch
  /\ InFlight(1) = batchSize
  /\ InFlight(2) = 1

(* ---------------- partition into batches ---------------- *)
UrlRowsOf(d) ==
  {k \in 1..Len(Rows) : Rows[k].country = DOMAINS_MAP[d].country /\ Rows[k].url # NoUrl}

\* C11: warmUrls cuts the URL sequence into exactly ceil(count/batchSize)
\* consecutive batches, each of batchSize URLs except possibly the last, whose
\* concatenation in order is the input sequence; an empty sequence gives no
\* batch and no fetch.
C11_BatchesPartition ==
  \A d \in Domains :
    Discovered(d) =>
      LET bs == dom[d].batches
          n == Len(dom[d].urls)
          m == Len(bs)
      IN /\ m * batchSize >= n
         /\ (m - 1) * batchSize < n
         /\ \A b \in 1..m :
              /\ Len(bs[b]) = IF b < m THEN batchSize ELSE n - (m - 1) * batchSize
              /\ Len(bs[b]) >= 1
         /\ Flat(bs) = dom[d].urls
         /\ Len(task[d]) = m
         /\ \A b \in 1..m : Len(task[d][b]) = Len(bs[b])
         /\ n = 0 => /\ bs = <<>>
                     /\ SlotsOf(d) = {}
                     /\ UrlRowsOf(d) = {}
                     /\ dom[d].pc = "done"
                     /\ dom[d].delays = 0

\* three URLs in batches of two: a full batch then a batch of one, next to a
\* domain whose discovery found nothing
C11_Witness ==
  /\ Len(DOMAINS_MAP) = 2
  /\ batchSize = 2
  /\ Len(dom[1].urls) = 3
  /\ Len(dom[1].batches) = 2
  /\ Len(dom[1].batches[1]) = 2
  /\ dom[1].batches[2] = <<dom[1].urls[3]>>
  /\ InFlight(1) = 2
  /\ Discovered(2)
  /\ dom[2].urls = <<>>

(* ---------------- HTTP error statuses ---------------- *)
HttpErrorStatus(st) == StatusNumber(st) >= 400 /\ StatusNumber(st) < 600

\* the step in which a 4xx/5xx response arrives returns it to warmUrls, which
\* logs a success row with that status and applies the purge decision
C12_Step ==
  \A d \in Domains : \A s \in SlotsOf(d) : \A res \in world.responses :
    (HttpErrorStatus(res.status) /\ HttpReply(d, s[1], s[2], res)) =>
      /\ task'[d][s[1]][s[2]].result = "returned"
      /\ \E r \in {LastRow(logger')} :
           RowAdded(r) /\ IsSuccessRow(r) /\ r.status = res.status
      /\ Len(purge'.calls) = Len(purge.calls) +
           IF ShouldPurge(HeaderOr(res.cf), HeaderOr(res.ls)) THEN 1 ELSE 0

\* C12: a fetch that receives an HTTP 4xx/5xx response is a success at
\* transport level: retryableGet returns the response without raising or
\* retrying, and warmUrls appends a success row (error flag 0) with that
\* status code and then applies the purge decision.
C12_HttpErrorIsSuccess == [][C12_Step]_vars

(* ---------------- region tag ---------------- *)
CountryChars == <<<<"i","d">>, <<"c","2">>, <<"c","3">>, <<"c","4">>>>
Chars(country) == CountryChars[CHOOSE k \in 1..Len(Countries) : Countries[k] = country]
SIN == <<"S","I","N">>

\* C13: the region tag of a success row is the edge code parsed from the
\* cf-ray header when the header is present and yields a code other than the
\* "N/A" sentinel, and the domain's configured region code when it is absent.
C13_RegionTagFromRay ==
  \A k \in 1..Len(Rows) : \A d \in Domains :
    (IsSuccessRow(Rows[k]) /\ Rows[k].url.host = DOMAINS_MAP[d].host) =>
      LET edge == cfEdge(Rows[k].cfRay)
      IN Chars(Rows[k].country) =
           IF edge # NA THEN edge ELSE Chars(DOMAINS_MAP[d].country)

(* ---------------- flush failures ---------------- *)
\* C14: when the sink is unreachable or answers with a non-success reply,
\* the flush is not retried, the run still completes, and the logger's rows
\* are not treated as delivered: the row buffer is left as it was.
C14_FailedFlushKeepsRows ==
  \A p \in 1..Len(sink) :
    sink[p].reply \in {"notok", "throw"} =>
      /\ main = "finished"
      /\ Len(sink) = 1
      /\ logger.rows = sink[p].rows

(* ---------------- failure rows ---------------- *)
\* the callbacks for URL u of domain d that ended the given way
EndedAs(d, u, result) ==
  Cardinality({s \in SlotsOf(d) :
                 dom[d].batches[s[1]][s[2]] = u /\ task[d][s[1]][s[2]].result = result})

FailureMessages == {MessageOf(err) : err \in world.errors \cup {NullErr}}

\* C15: a URL whose fetch fails gets exactly one failure row (error flag 1,
\* the error message, no status and no classification fields) and no purge
\* call; a fetch that was answered gets exactly one success row; no fetch
\* gets both.
C15_FailureRowOnly ==
  /\ \A i \in 1..Len(Rows) :
       IsFailureRow(Rows[i]) =>
         /\ Rows[i].message \in FailureMessages
         /\ Rows[i].status = ""
         /\ Rows[i].cfCache = <<>>
         /\ Rows[i].lsCache = <<>>
         /\ Rows[i].cfRay = <<>>
  /\ \A d \in Domains : \A k \in 1..Len(dom[d].urls) :
       LET u == dom[d].urls[k]
           FailureOf(r) == r.url = u /\ r.error = 1 /\ r.country = DOMAINS_MAP[d].country
           SuccessOf(r) == r.url = u /\ r.error = 0 /\ r.country = DOMAINS_MAP[d].country
           raised == EndedAs(d, u, "raised")
           returned == EndedAs(d, u, "returned")
       IN /\ CountRows(Rows, FailureOf) = raised
          /\ CountRows(Rows, SuccessOf) = returned
          /\ raised + returned <= Occurrences(dom[d].urls, u)
          /\ PurgeCallsFor(d, u) <= returned

\* a finished run whose first URL failed on a DNS error (one failure row, no
\* purge call) while the second was warmed and purged
C15_Witness ==
  /\ main = "finished"
  /\ Len(dom[1].urls) >= 2
  /\ task[1][1][1].result = "raised"
  /\ PurgeCallsFor(1, dom[1].urls[1]) = 0
  /\ \E i \in 1..Len(Rows) :
       /\ IsFailureRow(Rows[i])
       /\ Rows[i].url = dom[1].urls[1]
       /\ Rows[i].message = <<E_NOTFOUND.message>>
  /\ PurgeCallsFor(1, dom[1].urls[2]) = 1
  /\ EndedAs(1, dom[1].urls[2], "returned") = 1

(* ---------------- purge outcomes ---------------- *)
\* every answered fetch has its one success row and at most one purge POST,
\* none without credentials; no failure row joins a success row
C16_OneRowOnePost ==
  /\ \A d \in Domains : \A k \in 1..Len(dom[d].urls) :
       LET u == dom[d].urls[k]
           Of(r) == r.country = DOMAINS_MAP[d].country /\ r.url = u
           FailureOf(r) == Of(r) /\ r.error = 1
           SuccessOf(r) == Of(r) /\ r.error = 0
       IN /\ CountRows(Rows, SuccessOf) = EndedAs(d, u, "returned")
          /\ CountRows(Rows, SuccessOf) + CountRows(Rows, FailureOf)
               <= Occurrences(dom[d].urls, u)
          /\ Occurrences(purge.posts, u) <= PurgeCallsFor(d, u)
          /\ PurgeCallsFor(d, u) <= CountRows(Rows, SuccessOf)
  /\ (~CLOUDFLARE_ZONE_ID \/ ~CLOUDFLARE_API_TOKEN) => purge.posts = <<>>
  /\ \A d \in Domains : \A s \in SlotsOf(d) :
       task[d][s[1]][s[2]].pc = "purge" =>
         /\ task[d][s[1]][s[2]].result = "returned"
         /\ Occurrences(purge.posts, dom[d].batches[s[1]][s[2]]) >= 1

\* however the purge POST settles, the callback ends as a success, nothing is
\* logged or POSTed again, and the batch goes on to its join and delay
C16_Step ==
  \A d \in Domains : \A s \in SlotsOf(d) : \A o \in PurgeOutcomes :
    PurgeReturns(d, s[1], s[2], o) =>
      /\ logger' = logger
      /\ purge' = purge
      /\ sink' = sink
      /\ task'[d][s[1]][s[2]].pc = "done"
      /\ task'[d][s[1]][s[2]].result = "returned"
      /\ dom'[d].pc = IF \A j \in 1..Len(task'[d][s[1]]) : task'[d][s[1]][j].pc = "done"
                      THEN "delay" ELSE "batch"

\* C16: a purge never changes the warming outcome: at most one purge API
\* call per answered fetch, no retry, and whether the call succeeds, answers
\* non-success, throws or is skipped for want of credentials, the URL keeps
\* its single success row, gets no failure row, and the batch continues.
C16_PurgeNeverFailsWarm == []C16_OneRowOnePost /\ [][C16_Step]_vars

\* a finished run: one purge POST was made and settled, the URL has its one
\* success row
C16_Witness ==
  /\ main = "finished"
  /\ CLOUDFLARE_ZONE_ID /\ CLOUDFLARE_API_TOKEN
  /\ Len(purge.posts) = 1
  /\ Len(purge.calls) = 1
  /\ task[1][1][1].result = "returned"
  /\ Len(Rows) = 2
  /\ IsSuccessRow(Rows[2])
  /\ Rows[2].lsCache = EXPIRED

(* ---------------- failures of discovery ---------------- *)
SummaryRowsOf(d) ==
  {k \in 1..Len(Rows) : Rows[k].country = DOMAINS_MAP[d].country /\ Rows[k].url = NoUrl}

OthersUntouched(d) ==
  \A e \in Domains \ {d} : dom'[e] = dom[e] /\ task'[e] = task[e]

\* a domain past discovery has its summary row and warms exactly what its
\* child sitemaps delivered, in order; the run ends only after every domain
C17_SummaryAndUrls ==
  /\ \A d \in Domains :
       /\ Cardinality(SummaryRowsOf(d)) = IF Discovered(d) THEN 1 ELSE 0
       /\ Discovered(d) =>
            /\ dom[d].pending = {}
            /\ Len(dom[d].urlArrays) = Len(dom[d].sitemapList)
            /\ dom[d].urls = Flat(dom[d].urlArrays)
            /\ Len(dom[d].batches) = Len(dom[d].urls)
            /\ dom[d].pc = "done" => \A s \in SlotsOf(d) : task[d][s[1]][s[2]].result # "none"
  /\ main # "await" => \A d \in Domains : Discovered(d) /\ dom[d].pc = "done"

\* a failed index or child fetch adds nothing, leaves what the other children
\* delivered and the other domains alone, and the domain task goes on
C17_Step ==
  \A d \in Domains :
    /\ IndexFetched(d, Reply(TRUE, <<>>)) =>
         /\ dom'[d].urls = <<>>
         /\ dom'[d].pc = "done"
         /\ \E r \in {LastRow(logger')} :
              r.country = DOMAINS_MAP[d].country /\ r.url = NoUrl
         /\ OthersUntouched(d)
    /\ \A c \in dom[d].pending :
         SitemapFetched(d, c, Reply(TRUE, <<>>)) =>
           /\ dom'[d].urlArrays[c] = <<>>
           /\ \A o \in 1..Len(dom[d].urlArrays) :
                o # c => dom'[d].urlArrays[o] = dom[d].urlArrays[o]
           /\ OthersUntouched(d)
           /\ IF dom[d].pending = {c}
              THEN /\ dom'[d].urls = Flat(dom[d].urlArrays)
                   /\ Cardinality(SummaryRowsOf(d)') = 1
                   /\ dom'[d].pc = IF dom'[d].urls = <<>> THEN "done" ELSE "batch"
              ELSE dom'[d].pc = "children"

\* C17: a fetch or parse failure of the sitemap index or of a child sitemap
\* contributes zero URLs and never propagates: the other child sitemaps still
\* contribute, the domain still logs its summary row and runs warmUrls, and
\* the other domains' tasks are unaffected.
C17_DiscoveryFailureIsolated == []C17_SummaryAndUrls /\ [][C17_Step]_vars

\* a finished run: the first child of domain 1 failed and the second
\* delivered the URL that was warmed, the index of domain 2 failed; both
\* domains have their summary row
C17_Witness ==
  /\ main = "finished"
  /\ Len(dom[1].sitemapList) = 2
  /\ dom[1].urlArrays[1] = <<>>
  /\ dom[1].urls = <<Loc(1, "a")>>
  /\ task[1][1][1].result = "returned"
  /\ dom[2].sitemapList = <<>>
  /\ dom[2].urls = <<>>
  /\ Cardinality(SummaryRowsOf(1)) = 1
  /\ Cardinality(SummaryRowsOf(2)) = 1
  /\ Len(Rows) = 3

(* ---------------- timeouts ---------------- *)
\* C18: every network call of the run carries an explicit timeout, so a peer
\* that never answers cannot block a batch forever: as long as the run has
\* not finished, a timer or a call bounded by its timeout is pending, and the
\* run goes on to its flush.
C18_NeverBlockedForever == main # "finished" => ENABLED TimedNext

(* ---------------- backoff waits ---------------- *)
\* the backoff waits a call has begun: those that elapsed and the pending one
WaitsBegun(tk) == tk.sleeps + IF tk.pc = "sleep" THEN 1 ELSE 0

\* a call in its loop has begun one wait per transient failure seen
C19_WaitPerFailure ==
  \A d \in Domains : \A s \in SlotsOf(d) :
    LET tk == task[d][s[1]][s[2]]
    IN InRetryLoop(tk) => WaitsBegun(tk) = Len(tk.trace) /\ AllTransient(tk.trace)

\* every transient failure starts a wait, the failure of the last attempt
\* too, and the last error is raised only when that wait has elapsed
C19_Step ==
  \A d \in Domains : \A s \in SlotsOf(d) :
    LET tk == task[d][s[1]][s[2]]
        tn == task'[d][s[1]][s[2]]
    IN /\ \A err \in world.errors :
            (Retryable(err) /\ GetFails(d, s[1], s[2], err)) =>
              /\ tn.pc = "sleep"
              /\ tn.result = "none"
              /\ tn.trace = Append(tk.trace, err.code)
              /\ logger' = logger
       /\ (tk.pc = "sleep" /\ tn.result = "raised") =>
            /\ Len(tk.trace) = retries
            /\ tk.sleeps + 1 = retries
       /\ (tk.pc = "get" /\ tn.result = "raised") =>
            LastRow(logger').message \notin
              {<<E_ABORTED.message>>, <<E_RESET.message>>, <<E_TIMEDOUT.message>>}

\* C19: retryableGet waits the 2 s backoff after every transient failure,
\* the last attempt included: when all maxRetries attempts fail transiently
\* it makes maxRetries waits (not maxRetries-1) before raising the last
\* error; the number of waits always equals the number of transient failures.
C19_BackoffAfterEveryFailure == []C19_WaitPerFailure /\ [][C19_Step]_vars

\* the last attempt allowed has timed out and its backoff is pending: the
\* error is not raised yet
C19_Witness ==
  /\ retries = MaxRetries
  /\ task[1] # <<>>
  /\ task[1][1][1].pc = "sleep"
  /\ Len(task[1][1][1].trace) = retries
  /\ task[1][1][1].sleeps = retries - 1
  /\ task[1][1][1].lastError = E_TIMEDOUT
  /\ Len(logger.rows) = 1

(* ---------------- inter-batch delay ---------------- *)
\* C20: warmUrls applies the inter-batch delay after every batch, the last
\* included: a domain with n batches makes exactly n delays (not n-1),
\* warmUrls returns only after the delay that follows the final batch, and
\* with zero URLs there is no delay.
C20_DelayAfterEveryBatch ==
  /\ \A d \in Domains :
       /\ ~Discovered(d) => dom[d].delays = 0
       /\ dom[d].pc \in {"batch", "delay"} =>
            /\ dom[d].bi \in 1..Len(dom[d].batches)
            /\ dom[d].delays = dom[d].bi - 1
       /\ dom[d].pc = "delay" =>
            \A j \in 1..Len(task[d][dom[d].bi]) : task[d][dom[d].bi][j].pc = "done"
       /\ dom[d].pc = "done" =>
            /\ dom[d].delays = Len(dom[d].batches)
            /\ dom[d].urls = <<>> => dom[d].delays = 0
  /\ main # "await" => \A d \in Domains : dom[d].delays = Len(dom[d].batches)

\* the second and last batch of three URLs in batches of two is done and its
\* delay is pending: warmUrls has not returned, the run has not been flushed
C20_Witness ==
  /\ batchSize = 2
  /\ Len(dom[1].urls) = 3
  /\ dom[1].pc = "delay"
  /\ dom[1].bi = 2
  /\ dom[1].delays = 1
  /\ task[1][2][1].pc = "done"
  /\ main = "await"
  /\ \A d \in Domains \ {1} : dom[d].pc = "done"

====
